---- MODULE Spec2Model ----
(***************************************************************************)
(* Semisizer (src/Semisizer/Semisizer.py): a Streamlit script that         *)
(* downloads a video's audio, converts it to WAV, transcribes it and       *)
(* summarizes the transcript.  One script run executes main() and then the *)
(* two module-level delete_file calls.  The working directory is shared by *)
(* every script run; each browser session runs the script on its own       *)
(* thread.                                                                 *)
(***************************************************************************)
EXTENDS Naturals, Sequences, FiniteSets, TLC

VARIABLES fs, pc, runs, youtube_url, file_path, model, audio_path,
          transcription, summary, outcome, calls, heard

vars == <<fs, pc, runs, youtube_url, file_path, model, audio_path,
          transcription, summary, outcome, calls, heard>>

\* Number of script runs (over all sessions) explored.
MaxRuns == 2

\* Browser sessions; each one runs the script on its own thread.
Sessions == {"s1", "s2"}

\* Values of the text input: non-empty URLs, or the empty string.
Urls == {"https://youtu.be/a", "https://youtu.be/b"}

\* Container extensions the 'bestaudio/best' stream can have.
Exts == {"webm", "m4a", "mp3", "wav"}

\* Python None and optional values: None is <<>>, a value v is <<v>>.
None == <<>>

Some(v) == <<v>>

\* Python truthiness of an optional string: None and "" are falsy.
Truthy(o) == o # None /\ o[1] # ""

-----------------------------------------------------------------------------
(* Strings *)

\* str.endswith
EndsWith(s, suffix) ==
    /\ Len(s) >= Len(suffix)
    /\ SubSeq(s, Len(s) - Len(suffix) + 1, Len(s)) = suffix

RECURSIVE LStrip(_)
LStrip(s) ==
    IF Len(s) > 0 /\ SubSeq(s, 1, 1) = " " THEN LStrip(SubSeq(s, 2, Len(s))) ELSE s

RECURSIVE RStrip(_)
RStrip(s) ==
    IF Len(s) > 0 /\ SubSeq(s, Len(s), Len(s)) = " "
    THEN RStrip(SubSeq(s, 1, Len(s) - 1)) ELSE s

\* str.strip (spaces only)
Strip(s) == RStrip(LStrip(s))

-----------------------------------------------------------------------------
(* The working directory: a partial function from file names to contents. *)
(* A content records the URL whose audio it holds and the session whose    *)
(* script run downloaded it.                                               *)

\* outtmpl 'downloaded_audio.%(ext)s'
DownloadedPath(ext) == "downloaded_audio." \o ext

\* convert_audio's output_path
ConvertedPath == "converted_audio.wav"

Files == {DownloadedPath(e) : e \in Exts} \cup {ConvertedPath}

\* os.path.exists
Exists(dir, f) == f \in DOMAIN dir

\* os.remove
Remove(dir, f) == [g \in DOMAIN dir \ {f} |-> dir[g]]

\* creating or overwriting a file
WriteFile(dir, f, c) == [g \in DOMAIN dir \cup {f} |-> IF g = f THEN c ELSE dir[g]]

\* (mutation) the converted file replaces the input
ConvertWrites_Replacing(dir, input) ==
    Remove(WriteFile(dir, ConvertedPath, dir[input]), input)

\* convert_audio with exit code 0: ffmpeg -y writes the output, the input stays
ConvertWrites(dir, input) == WriteFile(dir, ConvertedPath, dir[input])

\* delete_file / one iteration of cleanup_files: remove the file if it exists
DeleteIfExists(dir, f) == IF Exists(dir, f) THEN Remove(dir, f) ELSE dir

\* cleanup_files: the hardcoded list, deleted in order
CleanupList == <<"downloaded_audio.mp3", "converted_audio.wav">>

RECURSIVE DeleteAll(_, _)
DeleteAll(dir, list) ==
    IF list = <<>> THEN dir
    ELSE DeleteAll(DeleteIfExists(dir, Head(list)), Tail(list))

cleanup_files(dir) == DeleteAll(dir, CleanupList)

\* the two module-level delete_file calls, in order
TailDeleteFirst == "downloaded_audio.webm"

TailDeleteSecond == "converted_audio.wav"

-----------------------------------------------------------------------------
Init ==
    /\ fs = <<>>
    /\ pc = [s \in Sessions |-> "idle"]
    /\ runs = 0
    /\ youtube_url = [s \in Sessions |-> ""]
    /\ file_path = [s \in Sessions |-> None]
    /\ model = [s \in Sessions |-> None]
    /\ audio_path = [s \in Sessions |-> None]
    /\ transcription = [s \in Sessions |-> None]
    /\ summary = [s \in Sessions |-> None]
    /\ outcome = [s \in Sessions |-> "none"]
    /\ calls = [s \in Sessions |-> <<>>]
    /\ heard = [s \in Sessions |-> None]

-----------------------------------------------------------------------------
(* Decisions taken by the code *)

\* main: "if st.button(...) and youtube_url"
PipelineRequested(button, url) == button /\ url # ""

\* (mutation) the result of initialize_model is not checked
ModelOk_Unchecked(m) == TRUE

\* main: "if not model: return" is not taken
ModelOk(m) == Truthy(m)

\* (mutation) every fetched file is converted
NeedsConversion_Always(path) == TRUE

\* transcribe_audio: "if not file_path.endswith('.wav')"
NeedsConversion(path) == ~EndsWith(path, ".wav")

\* (mutation) the exit code of the subprocess is ignored
ConversionFailed_Ignored(returncode) == FALSE

\* convert_audio: "if result.returncode != 0"
ConversionFailed(returncode) == returncode # 0

\* (mutation) only None is rejected, the empty string passes
TranscriptionOk_NotNone(t) == t # None

\* main: "if not transcription: return" is not taken
TranscriptionOk(t) == Truthy(t)

\* (mutation) a lock: a script run starts only when no other one is running
MayStart_Locked(s) == \A t \in Sessions : pc[t] = "idle"

\* a script run may start whenever the session's previous script run is over
MayStart(s) == pc[s] = "idle"

-----------------------------------------------------------------------------
(* Values exchanged with the speech model and the language model *)

EmptyDict == <<>>

\* dict.get(key, default)
Get(d, key, default) == IF key \in DOMAIN d THEN d[key] ELSE default

\* what model.transcribe may return for an audio file holding content c
WhisperResults(c) ==
    { EmptyDict,
      [segments |-> "none"],
      [text |-> ""],
      [text |-> " "],
      [text |-> "transcript of " \o c.url] }

\* transcribe_audio: result["text"] if result and "text" in result, else None
TranscribeReturn(result) ==
    IF result # EmptyDict /\ "text" \in DOMAIN result THEN Some(result.text) ELSE None

\* what ollama.chat may answer to "Summarize this: <text>"
ChatResponses(text) ==
    { EmptyDict,
      [message |-> EmptyDict],
      [message |-> [content |-> "  "]],
      [message |-> [content |-> " summary of " \o text \o " "]] }

\* summarize_text: response.get("message", {}).get("content", "").strip()
SummarizeReturn(response) ==
    Some(Strip(Get(Get(response, "message", EmptyDict), "content", "")))

ModelName == "llama3.2:latest"

\* initialize_model: the model name, or None when the greeting request raises
InitializeReturn(greetingRaises) == IF greetingRaises THEN None ELSE Some(ModelName)

-----------------------------------------------------------------------------
(* Leaving main: its locals are gone.  calls, the log of the operations the *)
(* script run has invoked, lasts until the script run is over.             *)

MainReturns(s, how) ==
    /\ pc' = [pc EXCEPT ![s] = "delete_webm"]
    /\ outcome' = [outcome EXCEPT ![s] = how]
    /\ youtube_url' = [youtube_url EXCEPT ![s] = ""]
    /\ file_path' = [file_path EXCEPT ![s] = None]
    /\ model' = [model EXCEPT ![s] = None]
    /\ audio_path' = [audio_path EXCEPT ![s] = None]
    /\ transcription' = [transcription EXCEPT ![s] = None]
    /\ summary' = [summary EXCEPT ![s] = None]
    /\ heard' = [heard EXCEPT ![s] = None]

\* main's "except Exception": the error is rendered and main returns
Caught(s) == MainReturns(s, "exception")

\* (mutation) a failed step sends the run back to the download
Return_Retry(s) ==
    /\ pc' = [pc EXCEPT ![s] = "download"]
    /\ UNCHANGED <<outcome, youtube_url, file_path, model, audio_path,
                   transcription, summary, heard>>

\* an early "return" of main
Return(s) == MainReturns(s, "halted")

\* main runs off its end after cleanup_files
Finished(s) == MainReturns(s, "done")

\* one more entry of the log: the operation, its argument, how it ended
Called(s, name, arg, result) ==
    calls' = [calls EXCEPT ![s] = Append(@, <<name, arg, result>>)]

-----------------------------------------------------------------------------
(* One action per step of a script run *)

\* The script is (re)run for session s: main() reads the widgets and starts
\* the pipeline when the button was pressed and the URL is not empty.
ScriptStart(s) ==
    /\ MayStart(s)
    /\ runs < MaxRuns
    /\ runs' = runs + 1
    /\ \E button \in BOOLEAN, url \in Urls \cup {""} :
         IF PipelineRequested(button, url)
         THEN /\ pc' = [pc EXCEPT ![s] = "download"]
              /\ outcome' = [outcome EXCEPT ![s] = "running"]
              /\ youtube_url' = [youtube_url EXCEPT ![s] = url]
         ELSE /\ pc' = [pc EXCEPT ![s] = "delete_webm"]
              /\ outcome' = [outcome EXCEPT ![s] = "norun"]
              /\ UNCHANGED youtube_url
    /\ UNCHANGED <<fs, file_path, model, audio_path, transcription, summary,
                   calls, heard>>

\* download_video: extract_info raises, or the stream is stored as
\* downloaded_audio.<ext>.  The options set no 'overwrites' key, so a file of
\* that name already on disk is kept or replaced as the installed downloader
\* decides.
download_video(s) ==
    /\ pc[s] = "download"
    /\ \/ /\ Called(s, "download_video", youtube_url[s], "raised")
          /\ Caught(s)
          /\ UNCHANGED fs
       \/ \E ext \in Exts, overwrite \in BOOLEAN :
            LET path == DownloadedPath(ext)
                content == [url |-> youtube_url[s], by |-> s]
            IN /\ Called(s, "download_video", youtube_url[s], path)
               /\ fs' = IF Exists(fs, path) /\ ~overwrite
                        THEN fs ELSE WriteFile(fs, path, content)
               /\ file_path' = [file_path EXCEPT ![s] = Some(path)]
               /\ pc' = [pc EXCEPT ![s] = "init"]
               /\ UNCHANGED <<outcome, youtube_url, model, audio_path,
                              transcription, summary, heard>>
    /\ UNCHANGED runs

\* initialize_model and main's check of its result
initialize_model(s) ==
    /\ pc[s] = "init"
    /\ \E greetingRaises \in BOOLEAN :
         LET m == InitializeReturn(greetingRaises)
         IN /\ Called(s, "initialize_model", "",
                      IF greetingRaises THEN "raised" ELSE "returned")
            /\ IF ModelOk(m)
               THEN /\ model' = [model EXCEPT ![s] = m]
                    /\ pc' = [pc EXCEPT ![s] = "transcribe"]
                    /\ UNCHANGED <<outcome, youtube_url, file_path, audio_path,
                                   transcription, summary, heard>>
               ELSE Return(s)
    /\ UNCHANGED <<fs, runs>>

\* transcribe_audio, up to the choice between converting and not
transcribe_audio(s) ==
    /\ pc[s] = "transcribe"
    /\ Called(s, "transcribe_audio", file_path[s][1], "")
    /\ audio_path' = [audio_path EXCEPT ![s] = file_path[s]]
    /\ pc' = [pc EXCEPT ![s] =
                IF NeedsConversion(file_path[s][1]) THEN "ffmpeg" ELSE "whisper"]
    /\ UNCHANGED <<fs, runs, youtube_url, file_path, model, transcription,
                   summary, outcome, heard>>

\* convert_audio: the ffmpeg subprocess runs to completion; it cannot succeed
\* without its input, and a failing run may or may not have opened its output.
convert_audio(s) ==
    /\ pc[s] = "ffmpeg"
    /\ LET input == audio_path[s][1]
       IN \E returncode \in (IF Exists(fs, input) THEN {0, 1} ELSE {1}) :
            /\ Called(s, "ffmpeg", input, IF returncode = 0 THEN "exit 0" ELSE "exit 1")
            /\ IF ConversionFailed(returncode)
               THEN /\ \E wrote \in BOOLEAN :
                         fs' = IF wrote /\ Exists(fs, input)
                               THEN WriteFile(fs, ConvertedPath, fs[input]) ELSE fs
                    /\ Caught(s)
               ELSE /\ fs' = ConvertWrites(fs, input)
                    /\ audio_path' = [audio_path EXCEPT ![s] = Some(ConvertedPath)]
                    /\ pc' = [pc EXCEPT ![s] = "whisper"]
                    /\ UNCHANGED <<outcome, youtube_url, file_path, model,
                                   transcription, summary, heard>>
    /\ UNCHANGED runs

\* whisper.load_model and model.transcribe, transcribe_audio's return value
\* and main's check of it.  Loading may raise; reading a missing file raises.
whisper(s) ==
    /\ pc[s] = "whisper"
    /\ LET path == audio_path[s][1]
       IN \/ /\ Called(s, "whisper", path, "raised")
             /\ Caught(s)
          \/ /\ Exists(fs, path)
             /\ \E result \in WhisperResults(fs[path]) :
                  LET t == TranscribeReturn(result)
                  IN /\ Called(s, "whisper", path,
                               IF t = None THEN "None" ELSE "text:" \o t[1])
                     /\ IF TranscriptionOk(t)
                        THEN /\ transcription' = [transcription EXCEPT ![s] = t]
                             /\ heard' = [heard EXCEPT ![s] = Some(fs[path])]
                             /\ pc' = [pc EXCEPT ![s] = "summarize"]
                             /\ UNCHANGED <<outcome, youtube_url, file_path, model,
                                            audio_path, summary>>
                        ELSE Return(s)
    /\ UNCHANGED <<fs, runs>>

\* summarize_text: an exception of the request is swallowed and None returned
summarize_text(s) ==
    /\ pc[s] = "summarize"
    /\ Called(s, "summarize_text",
              IF transcription[s] = None THEN "None" ELSE "text:" \o transcription[s][1], "")
    /\ \/ summary' = [summary EXCEPT ![s] = None]
       \/ \E response \in ChatResponses(IF transcription[s] = None THEN "None"
                                         ELSE transcription[s][1]) :
            summary' = [summary EXCEPT ![s] = SummarizeReturn(response)]
    /\ pc' = [pc EXCEPT ![s] = "render"]
    /\ UNCHANGED <<fs, runs, youtube_url, file_path, model, audio_path,
                   transcription, outcome, heard>>

\* main, after summarize_text: the summary or the failure message is
\* rendered, cleanup_files runs and main returns
render_and_cleanup(s) ==
    /\ pc[s] = "render"
    /\ Called(s, "cleanup_files", "", "")
    /\ fs' = cleanup_files(fs)
    /\ Finished(s)
    /\ UNCHANGED runs

\* module level, after main() has returned: delete_file("downloaded_audio.webm")
delete_webm(s) ==
    /\ pc[s] = "delete_webm"
    /\ fs' = DeleteIfExists(fs, TailDeleteFirst)
    /\ pc' = [pc EXCEPT ![s] = "delete_wav"]
    /\ UNCHANGED <<runs, youtube_url, file_path, model, audio_path,
                   transcription, summary, outcome, calls, heard>>

\* module level: delete_file("converted_audio.wav"); the script run is over
delete_wav(s) ==
    /\ pc[s] = "delete_wav"
    /\ fs' = DeleteIfExists(fs, TailDeleteSecond)
    /\ pc' = [pc EXCEPT ![s] = "idle"]
    /\ calls' = [calls EXCEPT ![s] = <<>>]
    /\ UNCHANGED <<runs, youtube_url, file_path, model, audio_path,
                   transcription, summary, outcome, heard>>

Step(s) ==
    \/ ScriptStart(s)
    \/ download_video(s)
    \/ initialize_model(s)
    \/ transcribe_audio(s)
    \/ convert_audio(s)
    \/ whisper(s)
    \/ summarize_text(s)
    \/ render_and_cleanup(s)
    \/ delete_webm(s)
    \/ delete_wav(s)

\* One session: script runs follow one another.
Next == Step("s1")

Spec == Init /\ [][Next]_vars

\* Several sessions: their script runs interleave step by step.
NextRace == \E s \in Sessions : Step(s)

SpecRace == Init /\ [][NextRace]_vars

\* One session whose script thread always goes on: every call returns or raises.
FairSpec == Init /\ [][Next]_vars /\ WF_vars(Next)

-----------------------------------------------------------------------------
(* Reading the state *)

\* the orchestrator's state, as the spec names it
Stage(s) ==
    CASE pc[s] = "download" -> "Downloading"
      [] pc[s] = "init" -> "InitializingModel"
      [] pc[s] \in {"transcribe", "ffmpeg", "whisper"} -> "Transcribing"
      [] pc[s] = "summarize" -> "Summarizing"
      [] pc[s] = "render" -> "Done"
      [] pc[s] \in {"delete_webm", "delete_wav"} ->
           IF outcome[s] = "done" THEN "Done"
           ELSE IF outcome[s] = "norun" THEN "Idle" ELSE "Aborted"
      [] OTHER -> "Idle"

\* main has returned and the script run is not over yet
MainReturned(s) == pc[s] \in {"delete_webm", "delete_wav"}

\* the download has returned and main has not reached cleanup_files
BetweenDownloadAndCleanup(s) ==
    pc[s] \in {"init", "transcribe", "ffmpeg", "whisper", "summarize", "render"}

\* positions of the log entries of an operation
Entries(s, name) == {i \in 1..Len(calls[s]) : calls[s][i][1] = name}

Invoked(s, name) == Entries(s, name) # {}

\* the path download_video returned in this script run, if it returned one
Fetched(s) ==
    {calls[s][i][3] : i \in {j \in Entries(s, "download_video") : calls[s][j][3] # "raised"}}

Candidates == {CleanupList[i] : i \in 1..Len(CleanupList)}


-----------------------------------------------------------------------------
(* Claims *)

\* C1: once a script run whose pipeline reached Done, or was ended by an
\* exception that main caught, is over, no file of cleanup_files' candidate
\* list is left in the working directory.
C1_CleanupOnDoneOrException ==
    \A s \in Sessions :
        (pc[s] = "idle" /\ outcome[s] \in {"done", "exception"})
            => \A f \in Candidates : ~Exists(fs, f)

\* C2: once a script run whose pipeline succeeded is over, the working
\* directory holds neither a downloaded_audio.<ext> file nor
\* converted_audio.wav.
C2_NoResidualFiles ==
    \A s \in Sessions :
        (pc[s] = "idle" /\ outcome[s] = "done") => \A f \in Files : ~Exists(fs, f)

\* C3: with script runs following one another, a pipeline run starts in a
\* working directory holding no intermediate file of an earlier run, and the
\* audio it transcribes was downloaded from its own URL.
C3_NoStaleState ==
    \A s \in Sessions :
        /\ pc[s] = "download" => \A f \in Files : ~Exists(fs, f)
        /\ heard[s] # None => heard[s][1].url = youtube_url[s]

\* C3, its second half alone: the audio a run transcribes was downloaded from
\* the run's own URL.
C3_TranscribesOwnUrl ==
    \A s \in Sessions : heard[s] # None => heard[s][1].url = youtube_url[s]

\* C4: when the greeting request of initialize_model raised, main has
\* returned through its early return (no exception reached its handler) and
\* the script run has invoked neither transcribe_audio, nor the conversion
\* subprocess, nor the speech model, nor summarize_text.
C4_InitFailureHalts ==
    \A s \in Sessions :
        (\E i \in Entries(s, "initialize_model") : calls[s][i][3] = "raised")
            => /\ MainReturned(s)
               /\ outcome[s] = "halted"
               /\ ~Invoked(s, "transcribe_audio")
               /\ ~Invoked(s, "ffmpeg")
               /\ ~Invoked(s, "whisper")
               /\ ~Invoked(s, "summarize_text")

C4_Witness ==
    \E s \in Sessions :
        /\ pc[s] = "delete_wav"
        /\ \E i \in Entries(s, "initialize_model") : calls[s][i][3] = "raised"

\* C5: when the conversion subprocess exited with a non-zero code, main has
\* returned through its exception handler, and the script run has invoked
\* neither the speech model nor summarize_text.
C5_ConversionFailureAborts ==
    \A s \in Sessions :
        (\E i \in Entries(s, "ffmpeg") : calls[s][i][3] # "exit 0")
            => /\ MainReturned(s)
               /\ outcome[s] = "exception"
               /\ ~Invoked(s, "whisper")
               /\ ~Invoked(s, "summarize_text")

C5_Witness ==
    \E s \in Sessions :
        /\ pc[s] = "delete_wav"
        /\ \E i \in Entries(s, "ffmpeg") : calls[s][i][3] = "exit 1"

\* C6, as claimed: in every script run in which download_video returned a
\* path, the conversion executable has been started by the time main returns
\* if and only if that path does not end with ".wav".
C6_ConvertsIffNotWav ==
    \A s \in Sessions :
        MainReturned(s) =>
            \A p \in Fetched(s) : Invoked(s, "ffmpeg") <=> ~EndsWith(p, ".wav")

\* C6, amended: once transcribe_audio has decided (it was invoked with path p
\* and is past its extension test), the conversion executable has been started
\* exactly once if p does not end with ".wav" and never if it does; the speech
\* model is only started after that, on converted_audio.wav in the first case
\* and on p itself in the second.  A script run that has not invoked
\* transcribe_audio has not started the executable.
C6_ConvertsIffNotWavWhenTranscribing ==
    \A s \in Sessions :
        /\ ~Invoked(s, "transcribe_audio") => ~Invoked(s, "ffmpeg")
        /\ \A i \in Entries(s, "transcribe_audio") :
             LET p == calls[s][i][2]
                 wav == EndsWith(p, ".wav")
             IN /\ p \in Fetched(s)
                /\ pc[s] # "ffmpeg" =>
                     Cardinality(Entries(s, "ffmpeg")) = IF wav THEN 0 ELSE 1
                /\ pc[s] = "ffmpeg" => ~wav /\ ~Invoked(s, "ffmpeg")
                /\ \A w \in Entries(s, "whisper") :
                     /\ calls[s][w][2] = IF wav THEN p ELSE ConvertedPath
                     /\ \A c \in Entries(s, "ffmpeg") : c < w

C6_Witness ==
    \E s \in Sessions :
        \E i \in Entries(s, "transcribe_audio"), w \in Entries(s, "whisper") :
            /\ EndsWith(calls[s][i][2], ".wav")
            /\ calls[s][w][2] = calls[s][i][2]
            /\ ~Invoked(s, "ffmpeg")

\* C7: summarize_text is only invoked with a non-empty text that the speech
\* model returned in the same script run; when transcribe_audio returned None
\* or the empty string, main has returned through its early return without
\* invoking summarize_text.
C7_SummarizeOnlyNonEmpty ==
    \A s \in Sessions :
        /\ pc[s] = "summarize" => Truthy(transcription[s])
        /\ \A i \in Entries(s, "summarize_text") :
             /\ calls[s][i][2] \notin {"None", "text:"}
             /\ \E w \in Entries(s, "whisper") : w < i /\ calls[s][w][3] = calls[s][i][2]
        /\ (\E w \in Entries(s, "whisper") : calls[s][w][3] \in {"None", "text:"})
             => /\ MainReturned(s)
                /\ outcome[s] = "halted"
                /\ ~Invoked(s, "summarize_text")

C7_Witness ==
    \E s \in Sessions :
        /\ pc[s] = "delete_wav"
        /\ \E w \in Entries(s, "whisper") : calls[s][w][3] = "text:"

\* C10, as claimed: between the return of download_video and cleanup_files,
\* exactly one of the run's audio files (the downloaded file,
\* converted_audio.wav) exists.
C10_ExactlyOneArtifact ==
    \A s \in Sessions :
        BetweenDownloadAndCleanup(s) =>
            Cardinality({f \in {file_path[s][1], ConvertedPath} : Exists(fs, f)}) = 1

\* C10, amended: between the return of download_video and cleanup_files (script
\* runs not overlapping) the downloaded file exists; it is the run's only audio
\* file until the conversion subprocess has exited with code 0, and from then
\* on converted_audio.wav exists beside it.
C10_ConvertedFileCoexists ==
    \A s \in Sessions :
        BetweenDownloadAndCleanup(s) =>
            LET artifacts == {f \in {file_path[s][1], ConvertedPath} : Exists(fs, f)}
                converted == \E i \in Entries(s, "ffmpeg") : calls[s][i][3] = "exit 0"
            IN /\ file_path[s][1] \in artifacts
               /\ Cardinality(artifacts) = IF converted THEN 2 ELSE 1

C10_Witness ==
    \E s \in Sessions :
        /\ pc[s] = "whisper"
        /\ Exists(fs, file_path[s][1])
        /\ Exists(fs, ConvertedPath)
        /\ file_path[s][1] # ConvertedPath

\* C8: nothing serializes script runs: a session whose script run is over can
\* start the next one whatever the other sessions are doing, and a script run
\* in progress can always take its next step.
C8_NothingSerializes ==
    \A s \in Sessions :
        /\ (pc[s] = "idle" /\ runs < MaxRuns) => ENABLED ScriptStart(s)
        /\ pc[s] # "idle" => ENABLED Step(s)

\* C8, the first hazard: a run has transcribed audio that another session's
\* run, still in progress, downloaded from another URL.
C8_Witness ==
    \E s, t \in Sessions :
        /\ s # t
        /\ pc[s] = "summarize"
        /\ outcome[t] = "running"
        /\ heard[s][1].by = t
        /\ heard[s][1].url = youtube_url[t]
        /\ heard[s][1].url # youtube_url[s]

\* C8, the second hazard: the file a run is about to convert or transcribe
\* has been deleted by another session's script run.
C8_DeletedUnderneath ==
    \E s \in Sessions :
        /\ pc[s] \in {"ffmpeg", "whisper"}
        /\ ~Exists(fs, audio_path[s][1])

\* the successor of a stage in the orchestrator's order
NextStage(a) ==
    CASE a = "Idle" -> "Downloading"
      [] a = "Downloading" -> "InitializingModel"
      [] a = "InitializingModel" -> "Transcribing"
      [] a = "Transcribing" -> "Summarizing"
      [] a = "Summarizing" -> "Done"
      [] OTHER -> "Idle"

\* C9, one step: a change of stage is a move to the next stage after the
\* current one has succeeded, an abort of a stage that can fail, or the end of
\* a finished run.
C9_StepInOrder(s) ==
    LET a == Stage(s)
        b == Stage(s)'
    IN a # b =>
         \/ /\ b = NextStage(a)
            /\ b = "InitializingModel" => file_path'[s] # None
            /\ b = "Transcribing" => Truthy(model'[s])
            /\ b = "Summarizing" => Truthy(transcription'[s])
         \/ /\ b = "Aborted"
            /\ a \in {"Downloading", "InitializingModel", "Transcribing"}
         \/ /\ b = "Idle"
            /\ a \in {"Done", "Aborted"}

\* C9: the stages of a run follow one another in the order Idle, Downloading,
\* Initializing Model, Transcribing, Summarizing, Done, each entered after the
\* previous one has succeeded and none entered again, and every run that has
\* left Idle ends in Done or Aborted.
C9_SequentialStages ==
    /\ [][\A s \in Sessions : C9_StepInOrder(s)]_vars
    /\ \A s \in Sessions :
         (Stage(s) \in {"Downloading", "InitializingModel", "Transcribing", "Summarizing"})
             ~> (Stage(s) \in {"Done", "Aborted"})

C9_Witness ==
    \E s \in Sessions :
        /\ pc[s] = "delete_wav"
        /\ outcome[s] = "done"
        /\ Invoked(s, "summarize_text")

====
